---- MODULE Spec2Model ----
(***************************************************************************)
(* Model of src/stock/quote.rs: the Quote request dispatcher of the        *)
(* korea-investment-api crate.                                             *)
(*                                                                         *)
(* A Quote is built once by Quote::new and then only read.  Each of its    *)
(* three async operations (daily_price, periodic_price, volume_rank)       *)
(* builds a URL, hands it to send_request, which reads the token from the  *)
(* authentication provider, attaches the headers and sends one GET, and    *)
(* finally decodes the body with Response::json.  Calls run concurrently;  *)
(* a call can be suspended at each .await, and the authentication          *)
(* provider's token can change between any two steps.                      *)
(*                                                                         *)
(* Rust values are modelled with uniform shapes so that they can be        *)
(* compared: Option<T> is a sequence of length 0 or 1, a Result is a       *)
(* triple <<"Ok" | "Err" | "Pending", a, b>>, a string argument is the     *)
(* sequence of its UTF-8 bytes.                                            *)
(***************************************************************************)
EXTENDS Bags, FiniteSets, Integers, Sequences, TLC

VARIABLES
    quote,   \* the dispatcher: struct Quote (quote.rs 14-20)
    auth,    \* the authentication provider behind quote.auth
    calls    \* bag of the operation calls (futures) made on the dispatcher

vars == <<quote, auth, calls>>

(***************************************************************************)
(* Bounds of the model.                                                    *)
(***************************************************************************)
MaxCalls == 2       \* operation calls made on the dispatcher in one run

Tokens == {"T1", "T2"}                       \* bearer tokens the provider may hold
\* symbol arguments, as UTF-8 bytes: "05&= " followed by U+00E9 (195, 169)
Shortcodes == {<<48, 53, 38, 61, 32, 195, 169>>}
Statuses == {200, 500}                       \* HTTP statuses the upstream answers with

(***************************************************************************)
(* Option<T>.                                                              *)
(***************************************************************************)
None == <<>>
Some(x) == <<x>>

(***************************************************************************)
(* types::Environment and the operations' TrId tags.                       *)
(***************************************************************************)
Environments == {"Real", "Virtual"}
Ops == {"daily_price", "periodic_price", "volume_rank"}

\* Into::<String>::into(tr_id): a fixed string per tag, one to one.
TrIdString(tr_id) == "tr_id:" \o tr_id

(***************************************************************************)
(* Quote::new: the endpoint is chosen by the environment.                  *)
(***************************************************************************)
EndpointFor(environment) ==
    IF environment = "Real"
    THEN [scheme |-> "https", host |-> "openapi.koreainvestment.com", port |-> 9443]
    ELSE [scheme |-> "https", host |-> "openapivts.koreainvestment.com", port |-> 29443]

QuoteNew(client, environment, authHandle, account) ==
    [client       |-> client,
     endpoint_url |-> EndpointFor(environment),
     environment  |-> environment,
     auth         |-> authHandle,
     account      |-> account]

(***************************************************************************)
(* URLs.  format!("{}/path", base) is the base with the path appended;     *)
(* Url::parse_with_params parses that string and, when it parses, appends  *)
(* the pairs to the query, escaping each value as form_urlencoded does.    *)
(* Only the parse of the input string can fail; the pairs never do.        *)
(***************************************************************************)
NoUrl == [scheme |-> "", host |-> "", port |-> 0, path |-> "", query |-> <<>>]

Format(base, path) ==
    [scheme |-> base.scheme, host |-> base.host, port |-> base.port, path |-> path]

\* form_urlencoded::byte_serialize on one byte: ASCII letters and digits and
\* * - . _ stay, a space becomes +, every other byte becomes %XX (upper case).
DigitChars == <<"0", "1", "2", "3", "4", "5", "6", "7", "8", "9">>
UpperChars == <<"A", "B", "C", "D", "E", "F", "G", "H", "I", "J", "K", "L", "M",
                "N", "O", "P", "Q", "R", "S", "T", "U", "V", "W", "X", "Y", "Z">>
LowerChars == <<"a", "b", "c", "d", "e", "f", "g", "h", "i", "j", "k", "l", "m",
                "n", "o", "p", "q", "r", "s", "t", "u", "v", "w", "x", "y", "z">>
HexChars == <<"0", "1", "2", "3", "4", "5", "6", "7", "8", "9",
              "A", "B", "C", "D", "E", "F">>

PercentEncodeByte(byte) ==
    "%" \o HexChars[(byte \div 16) + 1] \o HexChars[(byte % 16) + 1]

ByteSerialize(byte) ==
    CASE byte \in 48..57  -> DigitChars[byte - 47]
      [] byte \in 65..90  -> UpperChars[byte - 64]
      [] byte \in 97..122 -> LowerChars[byte - 96]
      [] byte = 42        -> "*"
      [] byte = 45        -> "-"
      [] byte = 46        -> "."
      [] byte = 95        -> "_"
      [] byte = 32        -> "+"
      [] OTHER            -> PercentEncodeByte(byte)

RECURSIVE Escape(_)
Escape(s) == IF s = <<>> THEN "" ELSE ByteSerialize(Head(s)) \o Escape(Tail(s))

\* param.into_iter(): the operation's (key, value) pairs
IntoIter(op, shortcode) == << <<op \o ".shortcode", shortcode>> >>

parse_with_params(input, pairs) ==
    IF input.scheme = "" \/ input.host = ""
    THEN [ok |-> FALSE, url |-> NoUrl]
    ELSE [ok |-> TRUE,
          url |-> [scheme |-> input.scheme, host |-> input.host, port |-> input.port,
                   path |-> input.path,
                   query |-> [i \in DOMAIN pairs |-> <<pairs[i][1], Escape(pairs[i][2])>>]]]

(***************************************************************************)
(* Results and errors.  The ? operator converts the error of the callee    *)
(* with From; the conversion depends on the error's type only, so the      *)
(* reqwest::Error of send() and the reqwest::Error of json() arrive in the *)
(* same variant, told apart only by the kind the reqwest error carries.    *)
(***************************************************************************)
Pending == <<"Pending", "", "">>
Ok(value) == <<"Ok", value, "">>
Err(variant, detail) == <<"Err", variant, detail>>

AuthInitFailed(what) == Err("AuthInitFailed", what)
FromUrlParseError(kind) == Err("From<url::ParseError>", kind)
FromReqwestError(kind) == Err("From<reqwest::Error>", kind)

(***************************************************************************)
(* Response bodies and Response::json::<T>().  The body answering an       *)
(* operation is malformed, or JSON that does not match the operation's     *)
(* schema, or JSON of the operation's schema.                              *)
(***************************************************************************)
Bodies(op) == {"malformed", "json:other", "json:" \o op}

Json(op, body) ==
    IF body = "json:" \o op
    THEN Ok("decoded:" \o op)
    ELSE FromReqwestError("decode")

(***************************************************************************)
(* One operation call.                                                     *)
(***************************************************************************)
NewCall(op, shortcode, tr_id) ==
    [pc              |-> "start",
     op              |-> op,
     shortcode       |-> shortcode,
     tr_id           |-> tr_id,
     url             |-> NoUrl,
     get_token_calls |-> 0,
     token           |-> None,
     requests        |-> <<>>,
     status          |-> 0,
     body            |-> "",
     result          |-> Pending]

Running == BagToSet(calls)
Replace(old, new) == calls' = (calls (-) SetToBag({old})) (+) SetToBag({new})

Init ==
    /\ \E environment \in Environments :
           quote = QuoteNew("client", environment, "auth", "account")
    /\ \E token \in {None} \cup {Some(t) : t \in Tokens} :
           auth = [token |-> token, appkey |-> "K", appsecret |-> "S"]
    /\ calls = EmptyBag

(***************************************************************************)
(* The three operations, up to the first await: the future of the call is  *)
(* created and the URL is built (quote.rs 53-64, 77-90, 99-104).  A URL    *)
(* that does not parse ends the call through the ? operator.               *)
(***************************************************************************)
Begin(op, shortcode, tr_id, base, path) ==
    LET parsed == parse_with_params(Format(base, path), IntoIter(op, shortcode))
        call   == NewCall(op, shortcode, tr_id)
    IN  /\ BagCardinality(calls) < MaxCalls
        /\ calls' = calls (+) SetToBag({
               IF parsed.ok
               THEN [call EXCEPT !.pc = "send_request", !.url = parsed.url]
               ELSE [call EXCEPT !.pc = "done",
                                 !.result = FromUrlParseError("parse")] })
        /\ UNCHANGED <<quote, auth>>

\* daily_price reading the token before it builds the URL
daily_price_token_first(shortcode) ==
    LET call == NewCall("daily_price", shortcode, "DailyPrice")
        read == [call EXCEPT !.get_token_calls = 1, !.token = auth.token]
    IN  /\ BagCardinality(calls) < MaxCalls
        /\ calls' = calls (+) SetToBag({
               IF auth.token = None
               THEN [read EXCEPT !.pc = "done", !.result = AuthInitFailed("token")]
               ELSE [call EXCEPT
                       !.pc = "send_request",
                       !.url = parse_with_params(
                                   Format(quote.endpoint_url,
                                          "/uapi/domestic-stock/v1/quotations/inquire-daily-price"),
                                   IntoIter("daily_price", shortcode)).url] })
        /\ UNCHANGED <<quote, auth>>

daily_price(shortcode) ==
    Begin("daily_price", shortcode, "DailyPrice", quote.endpoint_url,
          "/uapi/domestic-stock/v1/quotations/inquire-daily-price")

\* periodic_price tagged with the transaction identifier of daily_price
periodic_price_daily_tr_id(shortcode) ==
    Begin("periodic_price", shortcode, "DailyPrice", quote.endpoint_url,
          "/uapi/domestic-stock/v1/quotations/inquire-daily-itemchartprice")

periodic_price(shortcode) ==
    Begin("periodic_price", shortcode, "PeriodicPrice", quote.endpoint_url,
          "/uapi/domestic-stock/v1/quotations/inquire-daily-itemchartprice")

\* volume_rank honouring the configured environment
volume_rank_configured_host(params) ==
    Begin("volume_rank", params, "VolumeRank", quote.endpoint_url,
          "/uapi/domestic-stock/v1/quotations/volume-rank")

\* volume_rank switching the dispatcher itself to the production host
volume_rank_switching_host(params) ==
    LET prod   == [scheme |-> "https", host |-> "openapi.koreainvestment.com", port |-> 9443]
        parsed == parse_with_params(
                      Format(prod, "/uapi/domestic-stock/v1/quotations/volume-rank"),
                      IntoIter("volume_rank", params))
    IN  /\ BagCardinality(calls) < MaxCalls
        /\ quote' = [quote EXCEPT !.endpoint_url = prod]
        /\ calls' = calls (+) SetToBag({
               [NewCall("volume_rank", params, "VolumeRank") EXCEPT
                   !.pc = "send_request", !.url = parsed.url] })
        /\ UNCHANGED auth

volume_rank(params) ==
    Begin("volume_rank", params, "VolumeRank",
          [scheme |-> "https", host |-> "openapi.koreainvestment.com", port |-> 9443],
          "/uapi/domestic-stock/v1/quotations/volume-rank")

(***************************************************************************)
(* send_request up to .send() (quote.rs 108-126): the request is built,    *)
(* the token is read from the provider, and without a token the function   *)
(* returns before send() is reached.                                       *)
(***************************************************************************)
Headers(token, tr_id) ==
    [content_type  |-> "application/json",
     authorization |-> "Bearer " \o token,
     appkey        |-> auth.appkey,
     appsecret     |-> auth.appsecret,
     tr_id         |-> TrIdString(tr_id),
     custtype      |-> "P"]

\* send_request sending an empty bearer when the provider has no token
send_request_without_token(call) ==
    LET token  == auth.token
        bearer == IF token = None THEN "" ELSE token[1]
    IN  /\ call.pc = "send_request"
        /\ Replace(call, [call EXCEPT
                !.get_token_calls = @ + 1,
                !.token = token,
                !.pc = "send",
                !.requests = Append(@, [method  |-> "GET",
                                        url     |-> call.url,
                                        headers |-> Headers(bearer, call.tr_id)])])
        /\ UNCHANGED <<quote, auth>>

\* send_request reusing the token of an earlier call instead of reading the provider
send_request_cached_token(call) ==
    LET earlier == {c.token : c \in {d \in Running : d.token # None}}
        token   == IF earlier # {} THEN CHOOSE t \in earlier : TRUE ELSE auth.token
        read    == [call EXCEPT !.get_token_calls = @ + 1, !.token = token]
    IN  /\ call.pc = "send_request"
        /\ IF token = None
           THEN Replace(call, [read EXCEPT !.pc = "done",
                                           !.result = AuthInitFailed("token")])
           ELSE Replace(call, [read EXCEPT
                    !.pc = "send",
                    !.requests = Append(@, [method  |-> "GET",
                                            url     |-> call.url,
                                            headers |-> Headers(token[1], call.tr_id)])])
        /\ UNCHANGED <<quote, auth>>

send_request(call) ==
    LET token == auth.token
        read  == [call EXCEPT !.get_token_calls = @ + 1, !.token = token]
    IN  /\ call.pc = "send_request"
        /\ IF token = None
           THEN Replace(call, [read EXCEPT !.pc = "done",
                                           !.result = AuthInitFailed("token")])
           ELSE Replace(call, [read EXCEPT
                    !.pc = "send",
                    !.requests = Append(@, [method  |-> "GET",
                                            url     |-> call.url,
                                            headers |-> Headers(token[1], call.tr_id)])])
        /\ UNCHANGED <<quote, auth>>

(***************************************************************************)
(* .send().await? (quote.rs 126-127): the transport fails, or the head of  *)
(* a response arrives.  No status is looked at.                            *)
(***************************************************************************)
\* a transport failure answered by sending the request again
send_failed_retry(call) ==
    /\ call.pc = "send"
    /\ Replace(call, [call EXCEPT !.pc = "send_request"])
    /\ UNCHANGED <<quote, auth>>

send_failed(call) ==
    /\ call.pc = "send"
    /\ Replace(call, [call EXCEPT !.pc = "done",
                                  !.result = FromReqwestError("request")])
    /\ UNCHANGED <<quote, auth>>

send_responded(call, status) ==
    /\ call.pc = "send"
    /\ Replace(call, [call EXCEPT !.pc = "json", !.status = status])
    /\ UNCHANGED <<quote, auth>>

(***************************************************************************)
(* .json().await? (quote.rs 65, 91, 105): the body is read and decoded     *)
(* into the operation's response type; Ok(..) wraps the decoded value.     *)
(* The read of the body can fail as the send can.                          *)
(***************************************************************************)
json_failed(call) ==
    /\ call.pc = "json"
    /\ Replace(call, [call EXCEPT !.pc = "done",
                                  !.result = FromReqwestError("body")])
    /\ UNCHANGED <<quote, auth>>

\* a body that does not decode replaced by the response type's default value
json_or_default(call, body) ==
    /\ call.pc = "json"
    /\ Replace(call, [call EXCEPT
            !.pc = "done", !.body = body,
            !.result = IF Json(call.op, body)[1] = "Ok"
                       THEN Json(call.op, body)
                       ELSE Ok("default:" \o call.op)])
    /\ UNCHANGED <<quote, auth>>

json(call, body) ==
    /\ call.pc = "json"
    /\ Replace(call, [call EXCEPT !.pc = "done", !.body = body,
                                  !.result = Json(call.op, body)])
    /\ UNCHANGED <<quote, auth>>

(***************************************************************************)
(* The authentication provider: its token is set, replaced or removed by   *)
(* the authentication flow, at any time.                                   *)
(***************************************************************************)
set_token(token) ==
    /\ auth.token # Some(token)
    /\ auth' = [auth EXCEPT !.token = Some(token)]
    /\ UNCHANGED <<quote, calls>>

remove_token ==
    /\ auth.token # None
    /\ auth' = [auth EXCEPT !.token = None]
    /\ UNCHANGED <<quote, calls>>

Next ==
    \/ \E shortcode \in Shortcodes : daily_price(shortcode)
    \/ \E shortcode \in Shortcodes : periodic_price(shortcode)
    \/ \E params \in Shortcodes : volume_rank(params)
    \/ \E call \in Running : send_request(call)
    \/ \E call \in Running : send_failed(call)
    \/ \E call \in Running, status \in Statuses : send_responded(call, status)
    \/ \E call \in Running : json_failed(call)
    \/ \E call \in Running : \E body \in Bodies(call.op) : json(call, body)
    \/ \E token \in Tokens : set_token(token)
    \/ remove_token

Spec == Init /\ [][Next]_vars

(***************************************************************************)
(* Vocabulary of the properties.                                           *)
(***************************************************************************)
Done(c) == c.pc = "done"
IsOk(c) == c.result[1] = "Ok"
IsErr(c) == c.result[1] = "Err"
Sent(c) == Len(c.requests)
ReadNoToken(c) == c.get_token_calls > 0 /\ c.token = None
IsSuccess(status) == status \in 200..299
BodyRead(c) == c.body # ""
Decodable(c) == c.body = "json:" \o c.op

ProdHost(url) == url.scheme = "https" /\ url.host = "openapi.koreainvestment.com" /\ url.port = 9443
SimHost(url) == url.scheme = "https" /\ url.host = "openapivts.koreainvestment.com" /\ url.port = 29443

TagOf(op) ==
    CASE op = "daily_price"    -> "DailyPrice"
      [] op = "periodic_price" -> "PeriodicPrice"
      [] op = "volume_rank"    -> "VolumeRank"

\* The failure a finished call met, read off what happened to it.
Failure(c) ==
    CASE c.url = NoUrl                                              -> "url-construction"
      [] c.url # NoUrl /\ ReadNoToken(c)                            -> "authentication-unavailable"
      [] Sent(c) > 0 /\ ~BodyRead(c)                                -> "transport"
      [] BodyRead(c) /\ ~IsSuccess(c.status)                        -> "http-status"
      [] BodyRead(c) /\ IsSuccess(c.status) /\ ~Decodable(c)        -> "decode"
      [] OTHER                                                      -> "none"

Removed == {c \in BagToSet(calls) : CopiesIn(c, calls') < CopiesIn(c, calls)}
Added == {c \in BagToSet(calls') : CopiesIn(c, calls') > CopiesIn(c, calls)}

(***************************************************************************)
(* C1: a call to which the provider reported no token is finished with the *)
(* authentication-unavailable error and has handed no request to the       *)
(* transport, whichever operation it is.                                   *)
(***************************************************************************)
C1_NoTokenFailsBeforeNetwork ==
    \A c \in Running :
        ReadNoToken(c) =>
            /\ Done(c)
            /\ c.result = AuthInitFailed("token")
            /\ Sent(c) = 0

C1_Witness ==
    \E c, d \in Running :
        /\ c.op # d.op
        /\ ReadNoToken(c) /\ Done(c)
        /\ ReadNoToken(d) /\ Done(d)

(***************************************************************************)
(* C2: a finished call whose response had a non-2xx status has an error    *)
(* as its result, never a decoded value.                                   *)
(***************************************************************************)
C2_NonSuccessStatusIsError ==
    \A c \in Running :
        (Done(c) /\ c.status # 0 /\ ~IsSuccess(c.status)) => IsErr(c)

(***************************************************************************)
(* C3: daily_price and periodic_price target the host of the configured    *)
(* environment (Real: production, port 9443; Virtual: simulation, port     *)
(* 29443); volume_rank targets the production host in both environments.   *)
(***************************************************************************)
C3_Hosts ==
    \A c \in Running :
        c.url # NoUrl =>
            /\ (c.op \in {"daily_price", "periodic_price"} /\ quote.environment = "Real")
                   => ProdHost(c.url)
            /\ (c.op \in {"daily_price", "periodic_price"} /\ quote.environment = "Virtual")
                   => SimHost(c.url)
            /\ c.op = "volume_rank" => ProdHost(c.url)
            /\ \A i \in DOMAIN c.requests : c.requests[i].url = c.url

C3_Witness ==
    /\ quote.environment = "Virtual"
    /\ \E c, d \in Running :
        /\ c.op = "volume_rank" /\ Sent(c) = 1 /\ ProdHost(c.requests[1].url)
        /\ d.op = "daily_price" /\ Sent(d) = 1 /\ SimHost(d.requests[1].url)

(***************************************************************************)
(* C4: every dispatched request carries Authorization: Bearer <token>,     *)
(* appkey, appsecret, tr_id and custtype: P, with the provider's token,    *)
(* key and secret and the transaction identifier of the operation that     *)
(* was invoked, which is the identifier of no other operation.             *)
(***************************************************************************)
C4_Headers ==
    \A c \in Running : \A i \in DOMAIN c.requests :
        LET h == c.requests[i].headers
        IN  /\ c.token # None
            /\ h.authorization = "Bearer " \o c.token[1]
            /\ h.appkey = auth.appkey
            /\ h.appsecret = auth.appsecret
            /\ h.tr_id = TrIdString(TagOf(c.op))
            /\ \A other \in Ops \ {c.op} : h.tr_id # TrIdString(TagOf(other))
            /\ h.custtype = "P"
            /\ c.requests[i].method = "GET"

C4_Witness ==
    \E c, d \in Running :
        /\ c.op = "periodic_price" /\ Sent(c) = 1
        /\ c.requests[1].headers.tr_id = TrIdString("PeriodicPrice")
        /\ c.requests[1].headers.authorization = "Bearer T1"
        /\ d.op = "volume_rank" /\ Sent(d) = 1
        /\ d.requests[1].headers.tr_id = TrIdString("VolumeRank")
        /\ d.requests[1].headers.authorization = "Bearer T2"

(***************************************************************************)
(* C5: a call sends at most one GET; a call that succeeded sent exactly    *)
(* one; a call that failed is finished, so that it sends nothing more.     *)
(***************************************************************************)
C5_AtMostOneGet ==
    \A c \in Running :
        /\ Sent(c) <= 1
        /\ IsOk(c) => Sent(c) = 1
        /\ (IsOk(c) \/ IsErr(c)) <=> Done(c)

C5_Witness ==
    \E c, d \in Running :
        /\ Done(c) /\ IsOk(c) /\ Sent(c) = 1
        /\ Done(d) /\ d.result = FromReqwestError("request") /\ Sent(d) = 1

(***************************************************************************)
(* C6: a finished call whose response was 2xx with a body that is          *)
(* malformed or not of the operation's schema has the decode error as its  *)
(* result, never a value.                                                  *)
(***************************************************************************)
C6_DecodeError ==
    \A c \in Running :
        (Done(c) /\ IsSuccess(c.status) /\ BodyRead(c) /\ ~Decodable(c)) =>
            /\ ~IsOk(c)
            /\ c.result = FromReqwestError("decode")

C6_Witness ==
    \E c, d \in Running :
        /\ Done(c) /\ c.status = 200 /\ c.body = "malformed" /\ IsErr(c)
        /\ Done(d) /\ d.status = 200 /\ d.body = "json:other" /\ IsErr(d)

(***************************************************************************)
(* C7: each of the five failures reaches the caller as an error, and two   *)
(* calls that met different failures report different errors.              *)
(***************************************************************************)
C7_FailuresDistinct ==
    \A c, d \in Running :
        (Done(c) /\ Done(d)) =>
            /\ Failure(c) # "none" => IsErr(c)
            /\ (Failure(c) # "none" /\ Failure(d) # "none" /\ Failure(c) # Failure(d))
                   => c.result # d.result

(***************************************************************************)
(* C8: the step in which a call goes through send_request uses the token   *)
(* the provider holds in that step: with a token the call's one request    *)
(* bears it, without one the call fails and sends nothing, whatever        *)
(* earlier calls on the dispatcher read or achieved.                       *)
(***************************************************************************)
C8_TokenReadAtCallTime ==
    [][ (\E old \in Removed : old.pc = "send_request") =>
            \A new \in Added :
                IF auth.token = None
                THEN /\ new.result = AuthInitFailed("token")
                     /\ Sent(new) = 0
                ELSE /\ new.result = Pending
                     /\ Sent(new) = 1
                     /\ new.requests[1].headers.authorization = "Bearer " \o auth.token[1]
      ]_vars

C8_Witness ==
    /\ auth.token = None
    /\ \E c, d \in Running :
        /\ Done(c) /\ IsOk(c) /\ c.requests[1].headers.authorization = "Bearer T2"
        /\ Done(d) /\ d.result = AuthInitFailed("token") /\ Sent(d) = 0

(***************************************************************************)
(* C9: no step changes the dispatcher, and two requests of the same        *)
(* operation with the same arguments and the same token are equal,         *)
(* whatever else the calls that sent them went through.                    *)
(***************************************************************************)
SameRequests ==
    \A c, d \in Running :
        (c.op = d.op /\ c.shortcode = d.shortcode /\ c.token = d.token)
            => \A i \in DOMAIN c.requests : \A j \in DOMAIN d.requests :
                   c.requests[i] = d.requests[j]

C9_DispatcherUnchanged ==
    /\ [][quote' = quote]_vars
    /\ [](quote = QuoteNew("client", quote.environment, "auth", "account"))
    /\ []SameRequests

C9_Witness ==
    \E c, d \in Running :
        /\ c.op = d.op /\ c.op # "volume_rank" /\ c.token = d.token
        /\ Done(c) /\ IsOk(c) /\ Done(d) /\ IsErr(d)
        /\ Sent(c) = 1 /\ Sent(d) = 1 /\ c.requests = d.requests
        /\ quote.environment = "Virtual"

(***************************************************************************)
(* C10, as stated: a call whose parameter holds bytes that cannot stand in *)
(* a URL as they are, and that failed before it sent anything, failed with *)
(* the URL-construction error and without consulting the provider, also    *)
(* when the provider had no token.                                         *)
(***************************************************************************)
Unreserved(byte) ==
    byte \in (48..57) \cup (65..90) \cup (97..122) \cup {42, 45, 46, 95}

Malformed(s) == \E i \in DOMAIN s : ~Unreserved(s[i])

C10_MalformedParameterIsUrlError ==
    \A c \in Running :
        (Malformed(c.shortcode) /\ Done(c) /\ IsErr(c) /\ Sent(c) = 0) =>
            /\ c.result = FromUrlParseError("parse")
            /\ c.get_token_calls = 0

(***************************************************************************)
(* C10, amended: a call has built its URL by the time it reads the token;  *)
(* building the URL fails on no parameter value, as every byte that cannot *)
(* stand in a URL is escaped, so that no call reports the URL-construction *)
(* error, and a call to which the provider reported no token reports       *)
(* authentication-unavailable whatever its parameters are.                 *)
(***************************************************************************)
C10_UrlBeforeToken ==
    \A c \in Running :
        /\ c.get_token_calls > 0 => c.url # NoUrl
        /\ c.url # NoUrl
        /\ c.url.query = << <<c.op \o ".shortcode", Escape(c.shortcode)>> >>
        /\ c.result # FromUrlParseError("parse")
        /\ ReadNoToken(c) => c.result = AuthInitFailed("token")

C10_Witness ==
    \E c \in Running :
        /\ c.op = "daily_price"
        /\ Malformed(c.shortcode)
        /\ c.url.query = << <<"daily_price.shortcode", "05%26%3D+%C3%A9">> >>
        /\ ReadNoToken(c)
        /\ c.result = AuthInitFailed("token")

====
